---- MODULE Spec2Model ----
(***************************************************************************)
(* Model of src/src/unlibmd.py: the two fetch sessions of the UN Digital   *)
(* Library client, get_records_json (which drives undl_request) and        *)
(* get_records_xml, run against an API whose answers are nondeterministic. *)
(* One step of the model is one HTTP request together with all the code    *)
(* that runs up to the next request (or up to the return / the raise).     *)
(*                                                                         *)
(* Python's None is the empty tuple and a present value v is <<v>>.        *)
(***************************************************************************)
EXTENDS Integers, Sequences, FiniteSets, TLC

\* ---------------------------------------------------------------- bounds
MaxReq == 3      \* HTTP requests a session may issue in the model
MaxTotal == 3    \* largest total the API announces
MaxPage == 2     \* largest number of records on one page
MaxKeys == 2     \* largest number of distinct child keys of one record

\* ------------------------------------------------------- program constants
RetryLimit == 2  \* while retry_count < 2

None == <<>>
Some(v) == <<v>>

RateLimitMsg == "Let's wait 5 minutes! Too many requests, they say!"
UnableToParseMsg == "Unable to parse error message"
NoRecordsMsg == "200: No records"
RequestExceptionMsg == "RequestException"

VARIABLES
    kind,          \* "json": get_records_json, "xml": get_records_xml
    parameters,    \* the caller's mapping object, as it is now
    supplied,      \* history: the caller's mapping as it was at the call
    shared,        \* the session's mapping is the caller's object itself
    apiTotal,      \* the total the API announces on every 200 page
    pc,            \* position of the session
    params,        \* the session's own mapping (search_parameters / params)
    all_records,   \* accumulated records
    total,         \* the session's total
    logs,          \* get_records_json: logs
    search_id,     \* get_records_xml: search_id
    retry_count,   \* undl_request: retry_count
    status,        \* undl_request: status
    error,         \* undl_request: error
    sent,          \* history: the params of every HTTP request, in order
    resps,         \* history: the API's answer to every request, in order
    pauses,        \* history: number of time.sleep(300) calls made
    first,         \* the finished run the present one is compared with
    record,        \* extract_xml: the record
    elements,      \* extract_xml / get_query: the caller's list of rules
    extracted,     \* history: the dictionaries extract_xml returned, in order
    compiled,      \* history: the dictionaries get_query returned, in order
    declared,      \* history: the rules as the caller declared them
    column_value,  \* convert_me_id: the argument
    converted,     \* history: what convert_me_id returned
    calls,         \* the undl_request calls running in threads, by thread
    queue          \* the caller's result queue

\* the state of one fetch session
sessionVars == <<kind, parameters, supplied, shared, apiTotal, pc, params,
                 all_records, total, logs, search_id, retry_count, status,
                 error, sent, resps, pauses>>

\* the state of a convert_me_id call
convertVars == <<column_value, converted>>

\* the state of the threads that call undl_request
callVars == <<calls, queue>>

\* what a fetch session never touches
others == <<first, record, elements, extracted, compiled, declared,
            convertVars, callVars>>

vars == <<sessionVars, others>>

\* ------------------------------------------------------------ the API
\* An answer of the API.  exc: requests.get raised a RequestException.
\* bodyOK: the body parses (as XML for a 200, as the error document for
\* another status).  A 200 body that parses carries total, an optional
\* search_id and nrec records; keys is the number of distinct child keys
\* of the record when the page holds exactly one.  The collection element
\* always carries its namespace attribute (the one line 96 strips), and
\* an error document carries no search_id.
Answer(exc, st, ok, cur, n, k) ==
    [exc |-> exc, status |-> st, bodyOK |-> ok, hasCursor |-> cur,
     nrec |-> n, keys |-> k, total |-> apiTotal]

Responses ==
    {Answer(TRUE, 0, FALSE, FALSE, 0, 1)}
    \cup {Answer(FALSE, st, ok, FALSE, 0, 1) : st \in {429, 500}, ok \in BOOLEAN}
    \cup {Answer(FALSE, 200, FALSE, FALSE, 0, 1)}
    \cup {Answer(FALSE, 200, TRUE, cur, n, 1) : cur \in BOOLEAN, n \in 0..MaxPage}
    \cup {Answer(FALSE, 200, TRUE, cur, 1, k) : cur \in BOOLEAN, k \in 2..MaxKeys}

\* The cursor token the API puts on the page answering request number n:
\* a different token on every page.
Token(n) == n

Cursor(resp, n) == IF resp.hasCursor THEN Some(Token(n)) ELSE None

\* The record elements of the page answering request n, in document order.
PageRecords(resp, n) ==
    [i \in 1..resp.nrec |-> [page |-> n, idx |-> i, what |-> "record"]]

\* ------------------------------------------------- helpers of the code
\* mutant of SetFormat: parameters = {"format": "xml"}
SetFormatReplacesMap(p) == [k \in {"format"} |-> "xml"]

\* parameters["format"] = "xml"
SetFormat(p) ==
    [k \in DOMAIN p \cup {"format"} |-> IF k = "format" THEN "xml" ELSE p[k]]

\* search_parameters["search_id"] = log[-1]   /   params['search_id'] = search_id
SetSearchId(p, v) ==
    [k \in DOMAIN p \cup {"search_id"} |-> IF k = "search_id" THEN v ELSE p[k]]

\* mutant of CopyOf: no copy is taken, the result is the object itself
NotCopied(p) == [same |-> TRUE, map |-> p]

\* parameters.copy(): a new object, not the caller's, with the same items
CopyOf(p) == [same |-> FALSE, map |-> p]

\* The caller's object after the session has written m into its own
\* mapping: the same writes when the two are one object.
CallerSees(m, sh) == IF sh THEN m ELSE parameters

\* r_dict['response']['collection']['record'] after xmltodict.parse, as
\* len() and list.extend() see it: xmltodict gives a list only when the
\* element repeats, so a page of one record yields that record's own
\* dictionary, whose length and whose iteration are over its child keys.
XmlToDictRecords(resp, n) ==
    IF resp.nrec = 1
    THEN [i \in 1..resp.keys |-> [page |-> n, idx |-> i, what |-> "key"]]
    ELSE PageRecords(resp, n)

\* while len(all_records) != total
LoopCond(recs, tot) == IF tot = None THEN TRUE ELSE Len(recs) # tot[1]

\* log = [status, total, len(records), error, search_id]
LogEntry(st, tot, recs, err, sid) == <<st, tot, Len(recs), err, sid>>

\* the error left by the branch "elif status != 200"
ErrorOfFailure(resp, err) ==
    IF resp.bodyOK THEN err ELSE Some(UnableToParseMsg)

\* the error left by the branch "elif status == 200"
ErrorOfPage(resp, err) ==
    IF resp.nrec = 0 THEN Some(NoRecordsMsg) ELSE err

\* --------------------------------------------------------------- Init
CallerMaps ==
    {[q |-> "water"], [q |-> "water", format |-> "json"]}

Init ==
    /\ kind \in {"json", "xml"}
    /\ parameters \in CallerMaps
    /\ supplied = parameters
    /\ shared = CopyOf(parameters).same
    /\ apiTotal \in 0..MaxTotal
    /\ pc = IF kind = "json" THEN "json_while" ELSE "xml_while"
    /\ params = CopyOf(parameters).map
    /\ all_records = <<>>
    /\ total = None
    /\ logs = <<>>
    /\ search_id = None
    /\ retry_count = 0
    /\ status = None
    /\ error = None
    /\ sent = <<>>
    /\ resps = <<>>
    /\ pauses = 0
    /\ first = None
    /\ record = [control |-> None, datafields |-> <<>>]
    /\ elements = <<>>
    /\ extracted = <<>>
    /\ compiled = <<>>
    /\ declared = <<>>
    /\ column_value = None
    /\ converted = <<>>
    /\ calls = <<>>
    /\ queue = <<>>

\* ---------------------------------------------------- get_records_json
\* The loop test holds: undl_request is called and runs up to its retry loop.
JsonCall ==
    /\ pc = "json_while"
    /\ LoopCond(all_records, total)
    /\ params' = SetFormat(params)
    /\ parameters' = CallerSees(SetFormat(params), shared)
    /\ retry_count' = 0
    /\ status' = None
    /\ error' = None
    /\ pc' = "undl_while"
    /\ UNCHANGED <<kind, supplied, shared, apiTotal, all_records, total, logs,
                   search_id, sent, resps, pauses>>
    /\ UNCHANGED others

\* The loop test fails: return logs, all_records.
JsonReturn ==
    /\ pc = "json_while"
    /\ ~LoopCond(all_records, total)
    /\ pc' = "done"
    /\ UNCHANGED <<kind, parameters, supplied, shared, apiTotal, params,
                   all_records, total, logs, search_id, retry_count, status,
                   error, sent, resps, pauses>>
    /\ UNCHANGED others

\* undl_request leaves its retry loop with these locals, builds the log and
\* returns; get_records_json runs the rest of its loop body.
UndlFinish(st, tot, recs, err, sid) ==
    LET log == LogEntry(st, tot, recs, err, sid) IN
    /\ status' = st
    /\ error' = err
    /\ all_records' = all_records \o recs
    /\ logs' = Append(logs, log)
    /\ IF total = None
       THEN /\ total' = log[2]
            /\ params' = SetSearchId(params, log[5])
            /\ parameters' = CallerSees(SetSearchId(params, log[5]), shared)
       ELSE UNCHANGED <<total, params, parameters>>
    /\ pc' = "json_while"

\* One pass of "while retry_count < 2" in undl_request: one HTTP request.
UndlAttempt ==
    /\ pc = "undl_while"
    /\ retry_count < RetryLimit
    /\ Len(sent) < MaxReq
    /\ \E resp \in Responses :
        LET n == Len(sent) + 1 IN
        /\ sent' = Append(sent, params)
        /\ resps' = Append(resps, resp)
        /\ IF resp.exc
           THEN \* except requests.exceptions.RequestException
                /\ UndlFinish(status, None, <<>>, Some(RequestExceptionMsg), None)
                /\ UNCHANGED <<retry_count, pauses>>
           ELSE IF resp.status = 429
           THEN /\ retry_count' = retry_count + 1
                /\ pauses' = pauses + 1
                /\ IF retry_count + 1 < RetryLimit
                   THEN /\ status' = Some(429)
                        /\ error' = Some(RateLimitMsg)
                        /\ UNCHANGED <<pc, params, parameters, all_records,
                                       total, logs>>
                   ELSE UndlFinish(Some(429), None, <<>>, Some(RateLimitMsg), None)
           ELSE IF resp.status # 200
           THEN /\ UndlFinish(Some(resp.status), None, <<>>,
                              ErrorOfFailure(resp, error), None)
                /\ UNCHANGED <<retry_count, pauses>>
           ELSE IF ~resp.bodyOK
           THEN \* xmltodict.parse raises; only RequestException is caught
                /\ pc' = "raised"
                /\ status' = Some(200)
                /\ UNCHANGED <<params, parameters, all_records, total, logs,
                               error, retry_count, pauses>>
           ELSE /\ UndlFinish(Some(200), Some(resp.total),
                              XmlToDictRecords(resp, n),
                              ErrorOfPage(resp, error), Cursor(resp, n))
                /\ UNCHANGED <<retry_count, pauses>>
    /\ UNCHANGED <<kind, supplied, shared, apiTotal, search_id>>
    /\ UNCHANGED others

\* ----------------------------------------------------- get_records_xml
\* if search_id: params['search_id'] = search_id  else: params = parameters.copy()
XmlParams(p, orig, sid) ==
    IF sid # None
    THEN [same |-> shared, map |-> SetSearchId(p, sid)]
    ELSE CopyOf(orig)

\* The code from "Parse the response XML" to the end of the loop body.
XmlBody(resp, n) ==
    IF ~resp.bodyOK
    THEN \* ET.ParseError is caught: break
         /\ pc' = "done"
         /\ UNCHANGED <<search_id, total, all_records>>
    ELSE IF resp.status # 200 \/ ~resp.hasCursor
    THEN \* response.find('search_id') is None: AttributeError
         /\ pc' = "raised"
         /\ UNCHANGED <<search_id, total, all_records>>
    ELSE /\ search_id' = Cursor(resp, n)
         /\ total' = IF total = None THEN Some(resp.total) ELSE total
         /\ IF resp.nrec = 0
            THEN \* if not collection: break
                 /\ pc' = "done"
                 /\ UNCHANGED all_records
            ELSE /\ all_records' = all_records \o PageRecords(resp, n)
                 /\ pc' = "xml_while"

\* Top of "while True": the request of a new page.
XmlRequest ==
    /\ pc = "xml_while"
    /\ Len(sent) < MaxReq
    /\ \E resp \in Responses :
        LET n == Len(sent) + 1
            p == XmlParams(params, parameters, search_id) IN
        /\ params' = p.map
        /\ shared' = p.same
        /\ parameters' = CallerSees(p.map, p.same)
        /\ sent' = Append(sent, p.map)
        /\ resps' = Append(resps, resp)
        /\ IF resp.exc
           THEN /\ pc' = "raised"
                /\ UNCHANGED <<search_id, total, all_records, pauses>>
           ELSE IF resp.status = 429
           THEN /\ pc' = "xml_retry"
                /\ pauses' = pauses + 1
                /\ UNCHANGED <<search_id, total, all_records>>
           ELSE IF resp.status # 200
           THEN /\ pc' = "done"
                /\ UNCHANGED <<search_id, total, all_records, pauses>>
           ELSE /\ XmlBody(resp, n)
                /\ UNCHANGED pauses
    /\ UNCHANGED <<kind, supplied, apiTotal, logs, retry_count, status, error>>
    /\ UNCHANGED others

\* The second requests.get after time.sleep(300); its status is not tested.
XmlRetry ==
    /\ pc = "xml_retry"
    /\ Len(sent) < MaxReq
    /\ \E resp \in Responses :
        LET n == Len(sent) + 1 IN
        /\ sent' = Append(sent, params)
        /\ resps' = Append(resps, resp)
        /\ IF resp.exc
           THEN /\ pc' = "raised"
                /\ UNCHANGED <<search_id, total, all_records>>
           ELSE XmlBody(resp, n)
    /\ UNCHANGED <<kind, parameters, supplied, shared, apiTotal, params, logs,
                   retry_count, status, error, pauses>>
    /\ UNCHANGED others

Next ==
    \/ JsonCall
    \/ JsonReturn
    \/ UndlAttempt
    \/ XmlRequest
    \/ XmlRetry

Spec == Init /\ [][Next]_vars

\* ------------------------------------- both fetchers on the same answers
\* get_records_json has run on parameters (it returned, raised, or wants a
\* request the model no longer grants); its run is kept and
\* get_records_xml is called with the same parameters.
StartReplay ==
    /\ first = None
    /\ kind = "json"
    /\ IF pc = "json_while" THEN Len(sent) = MaxReq ELSE pc \in {"done", "raised"}
    /\ first' = Some([sent |-> sent, resps |-> resps,
                      all_records |-> all_records, pc |-> pc])
    /\ kind' = "xml"
    /\ pc' = "xml_while"
    /\ params' = CopyOf(parameters).map
    /\ shared' = CopyOf(parameters).same
    /\ all_records' = <<>>
    /\ total' = None
    /\ logs' = <<>>
    /\ search_id' = None
    /\ retry_count' = 0
    /\ status' = None
    /\ error' = None
    /\ sent' = <<>>
    /\ resps' = <<>>
    /\ pauses' = 0
    /\ UNCHANGED <<parameters, supplied, apiTotal, record, elements, extracted,
                   compiled, declared, convertVars, callVars>>

\* The API gives the second run the answers it gave the first, in order.
SameAnswers ==
    IF first = None THEN TRUE
    ELSE \A i \in 1..Len(resps') :
            i <= Len(first[1].resps) => resps'[i] = first[1].resps[i]

InitPair == Init /\ kind = "json"

NextPair ==
    \/ Next /\ SameAnswers
    \/ StartReplay

SpecPair == InitPair /\ [][NextPair]_vars

\* ------------------------------------------- get_query and extract_xml
MaxFields == 2   \* datafields of a record
MaxRules == 2    \* rules in the caller's list
MaxCalls == 2    \* calls of extract_xml, and of get_query, on the same rules

SeqsUpTo(S, n) == UNION {[1..k -> S] : k \in 0..n}

Subfield(c, t) == [code |-> c, text |-> t]
Datafield(tag, ind1, subs) == [tag |-> tag, ind1 |-> ind1, subfields |-> subs]

\* the datafields a record is made of
DatafieldChoices ==
    { Datafield("245", "1", <<Subfield("a", "y"), Subfield("b", "x")>>),
      Datafield("245", "0", <<Subfield("a", "x")>>),
      Datafield("245", "1", <<Subfield("a", "x"), Subfield("a", "x")>>),
      Datafield("245", "1", <<>>),
      Datafield("650", "1", <<Subfield("a", "x")>>) }

\* A Python value stored in an extracted dictionary is None, a string
\* [text |-> s] or a list [list |-> items]; an item of a list is a string
\* [text |-> s] or a dictionary [dict |-> d].
Text(s) == [text |-> s]
List(items) == [list |-> items]

\* a record: the text of its 001 controlfield (None when it has none) and
\* its datafields in document order
Records ==
    [control : {None, Some(Text("1234"))},
     datafields : SeqsUpTo(DatafieldChoices, MaxFields)]

\* a rule as the caller writes it; code and ind1 are None or a string
Rule(field, code, ind1, element, name) ==
    [field |-> field, code |-> code, ind1 |-> ind1, element |-> element,
     name |-> name]

\* rules given to get_query alone
QueryRuleChoices ==
    { Rule(f, c, i, k, n) :
        f \in {"245", "650"}, c \in {None, Some(""), Some("a")},
        i \in {None, Some(""), Some("1")}, k \in {"field", "subfield"},
        n \in {"title", "undl_id"} }

\* rules given to extract_xml: a field rule names no code, a subfield rule
\* names one
ExtractRuleChoices ==
    { Rule("245", ck[1], i, ck[2], n) :
        ck \in {<<None, "field">>, <<Some("a"), "subfield">>},
        i \in {None, Some("1")}, n \in {"title", "undl_id"} }

\* mutant of SetKey: a new dictionary holding only that key
SetKeyAlone(d, key, value) == [k \in {key} |-> value]

\* element[key] = value on a dictionary
SetKey(d, key, value) ==
    [k \in DOMAIN d \cup {key} |-> IF k = key THEN value ELSE d[k]]

\* Python's truth value of a str-or-None
Truthy(v) == v # None /\ v # Some("")

\* One step of a selector: move along axis ("self" stays on the node), keep
\* the nodes whose attribute attr is val.
Step(axis, attr, val) == [axis |-> axis, attr |-> attr, val |-> val]

\* mutant of GetQuery: the selector is appended to the query the dictionary
\* already holds
GetQueryAppends(element) ==
    LET field == element["field"]
        code == element["code"]
        ind1 == element["ind1"]
        q0 == (IF "query" \in DOMAIN element THEN element["query"] ELSE <<>>)
                \o <<Step("datafield", "tag", field)>>
        q1 == IF Truthy(ind1) THEN Append(q0, Step("self", "ind1", ind1[1])) ELSE q0
        q2 == IF Truthy(code) \/ code = Some("")
              THEN Append(q1, Step("subfield", "code", code[1])) ELSE q1
    IN SetKey(element, "query", q2)

\* mutant of GetQuery: the test on code is "if code:"
GetQueryTruthyCode(element) ==
    LET field == element["field"]
        code == element["code"]
        ind1 == element["ind1"]
        q0 == <<Step("datafield", "tag", field)>>
        q1 == IF Truthy(ind1) THEN Append(q0, Step("self", "ind1", ind1[1])) ELSE q0
        q2 == IF Truthy(code)
              THEN Append(q1, Step("subfield", "code", code[1])) ELSE q1
    IN SetKey(element, "query", q2)

\* get_query: the selector, built by appending
\*   datafield[@tag='F']   [@ind1='I']   /subfield[@code='C']
\* and the dictionary it returns, which is the caller's with key query set.
GetQuery(element) ==
    LET field == element["field"]
        code == element["code"]
        ind1 == element["ind1"]
        q0 == <<Step("datafield", "tag", field)>>
        q1 == IF Truthy(ind1) THEN Append(q0, Step("self", "ind1", ind1[1])) ELSE q0
        q2 == IF Truthy(code) \/ code = Some("")
              THEN Append(q1, Step("subfield", "code", code[1])) ELSE q1
    IN SetKey(element, "query", q2)

RECURSIVE Flatten(_)
Flatten(ss) == IF ss = <<>> THEN <<>> ELSE Head(ss) \o Flatten(Tail(ss))

\* A node of a record is its path: <<>> the record, <<i>> its i-th
\* datafield, <<i, j>> that datafield's j-th subfield.
Children(rec, node, name) ==
    IF name = "datafield" /\ node = <<>>
    THEN [i \in 1..Len(rec.datafields) |-> <<i>>]
    ELSE IF name = "subfield" /\ Len(node) = 1
    THEN [j \in 1..Len(rec.datafields[node[1]].subfields) |-> <<node[1], j>>]
    ELSE <<>>

\* the value of an attribute of a node, None when the node has none such
Attr(rec, node, attr) ==
    IF Len(node) = 1 /\ attr \in {"tag", "ind1"}
    THEN Some(rec.datafields[node[1]][attr])
    ELSE IF Len(node) = 2 /\ attr = "code"
    THEN Some(rec.datafields[node[1]].subfields[node[2]].code)
    ELSE None

RECURSIVE Walk(_, _, _)
Walk(rec, query, nodes) ==
    IF query = <<>> THEN nodes
    ELSE LET st == Head(query)
             moved == IF st.axis = "self" THEN nodes
                      ELSE Flatten([k \in 1..Len(nodes) |->
                                        Children(rec, nodes[k], st.axis)])
             kept == SelectSeq(moved, LAMBDA nd : Attr(rec, nd, st.attr) = Some(st.val))
         IN Walk(rec, Tail(query), kept)

\* record.findall(query): the matching nodes in document order
FindAll(rec, query) == Walk(rec, query, << <<>> >>)

\* e.text of a matched node
TextItem(rec, node) ==
    Text(IF Len(node) = 2
         THEN rec.datafields[node[1]].subfields[node[2]].text
         ELSE "")

\* {e.get("code"): e.text for e in node.xpath(".//subfield")}: a later
\* subfield with the same code replaces an earlier one
DictItem(rec, node) ==
    LET subs == IF Len(node) = 1 THEN rec.datafields[node[1]].subfields ELSE <<>>
        codes == {subs[j].code : j \in DOMAIN subs}
        last(c) == CHOOSE j \in DOMAIN subs :
                        /\ subs[j].code = c
                        /\ \A m \in DOMAIN subs : subs[m].code = c => m <= j
    IN [dict |-> [c \in codes |-> subs[last(c)].text]]

\* mutant of ValueOf: the branch "elif len(xml_element) > 1" is missing
ValueOfSingleOnly(rec, element) ==
    LET xml_element == FindAll(rec, element["query"]) IN
    IF Len(xml_element) = 1
    THEN IF element["element"] = "field"
         THEN Some(List(<<DictItem(rec, xml_element[1])>>))
         ELSE Some(List(<<TextItem(rec, xml_element[1])>>))
    ELSE None

\* the value v that extract_xml computes for one compiled rule
ValueOf(rec, element) ==
    LET xml_element == FindAll(rec, element["query"]) IN
    IF Len(xml_element) = 1
    THEN IF element["element"] = "field"
         THEN Some(List(<<DictItem(rec, xml_element[1])>>))
         ELSE Some(List(<<TextItem(rec, xml_element[1])>>))
    ELSE IF Len(xml_element) > 1
    THEN IF element["element"] = "field"
         THEN Some(List([k \in 1..Len(xml_element) |->
                                DictItem(rec, xml_element[k])]))
         ELSE Some(List([k \in 1..Len(xml_element) |->
                                TextItem(rec, xml_element[k])]))
    ELSE None

RECURSIVE StoreAll(_, _, _, _)
\* the loop "for element in elements": dictionary_record[element["name"]] = v
StoreAll(dict, rec, els, i) ==
    IF i > Len(els) THEN dict
    ELSE StoreAll(SetKey(dict, els[i]["name"], ValueOf(rec, els[i])), rec, els, i + 1)

\* the dictionary extract_xml returns for the compiled rules els
ExtractResult(rec, els) ==
    StoreAll([undl_id |-> rec.control], rec, els, 1)

\* no fetch session runs
SessionIdle ==
    /\ kind = "none"
    /\ parameters = [q |-> "water"]
    /\ supplied = parameters
    /\ shared = FALSE
    /\ apiTotal = 0
    /\ pc = "idle"
    /\ params = [q |-> "water"]
    /\ all_records = <<>>
    /\ total = None
    /\ logs = <<>>
    /\ search_id = None
    /\ retry_count = 0
    /\ status = None
    /\ error = None
    /\ sent = <<>>
    /\ resps = <<>>
    /\ pauses = 0
    /\ first = None

\* extract_xml(record, elements), whole: every rule goes through get_query,
\* which writes into the caller's dictionary; the result is returned.
ExtractXml ==
    /\ Len(extracted) < MaxCalls
    /\ LET els == [i \in 1..Len(elements) |-> GetQuery(elements[i])] IN
        /\ elements' = els
        /\ extracted' = Append(extracted, ExtractResult(record, els))
    /\ UNCHANGED <<sessionVars, first, record, compiled, declared,
                   convertVars, callVars>>

InitExtract ==
    /\ SessionIdle
    /\ column_value = None
    /\ converted = <<>>
    /\ calls = <<>>
    /\ queue = <<>>
    /\ record \in Records
    /\ elements \in SeqsUpTo(ExtractRuleChoices, MaxRules)
    /\ declared = elements
    /\ extracted = <<>>
    /\ compiled = <<>>

NextExtract == ExtractXml

SpecExtract == InitExtract /\ [][NextExtract]_vars

\* get_query(element) on one of the caller's rules
GetQueryCall ==
    /\ Len(compiled) < MaxCalls
    /\ \E i \in 1..Len(elements) :
        LET e == GetQuery(elements[i]) IN
        /\ elements' = [elements EXCEPT ![i] = e]
        /\ compiled' = Append(compiled, e)
    /\ UNCHANGED <<sessionVars, first, record, extracted, declared,
                   convertVars, callVars>>

InitQuery ==
    /\ SessionIdle
    /\ column_value = None
    /\ converted = <<>>
    /\ calls = <<>>
    /\ queue = <<>>
    /\ record = [control |-> None, datafields |-> <<>>]
    /\ elements \in {<<r>> : r \in QueryRuleChoices}
    /\ declared = elements
    /\ extracted = <<>>
    /\ compiled = <<>>

NextQuery ==
    \/ GetQueryCall
    \/ ExtractXml

SpecQuery == InitQuery /\ [][NextQuery]_vars

\* ------------------------------------------- undl_request in threads
NThreads == 2    \* threads that call undl_request with the same queue

Threads == 1..NThreads

\* The locals of a call undl_request(p, result_queue) when it reaches its
\* retry loop; parameters is the caller's own mapping, which line 286 has
\* written format into.  sent, resps and pauses are the call's history,
\* put the pairs it has put on the queue, result the pair it returned.
NewCall(p) ==
    [pc |-> "while", parameters |-> SetFormat(p), retry_count |-> 0,
     status |-> None, total |-> None, records |-> <<>>, error |-> None,
     search_id |-> None, sent |-> <<>>, resps |-> <<>>, pauses |-> 0,
     put |-> <<>>, result |-> None]

\* the mapping thread t passes: every thread has its own
OwnMap(t) == [q |-> "water", rg |-> t]

\* One pass of "while retry_count < 2" of call c, answered with resp.
Attempt(c, resp) ==
    LET n == Len(c.sent) + 1
        c1 == [c EXCEPT !.sent = Append(@, c.parameters),
                        !.resps = Append(@, resp)] IN
    IF resp.exc
    THEN [c1 EXCEPT !.error = Some(RequestExceptionMsg), !.pc = "log"]
    ELSE IF resp.status = 429
    THEN [c1 EXCEPT !.status = Some(429), !.error = Some(RateLimitMsg),
                    !.retry_count = @ + 1, !.pauses = @ + 1,
                    !.pc = IF c.retry_count + 1 < RetryLimit
                           THEN "while" ELSE "log"]
    ELSE IF resp.status # 200
    THEN [c1 EXCEPT !.status = Some(resp.status),
                    !.error = ErrorOfFailure(resp, c.error), !.pc = "log"]
    ELSE IF ~resp.bodyOK
    THEN \* xmltodict.parse raises; only RequestException is caught
         [c1 EXCEPT !.status = Some(200), !.pc = "raised"]
    ELSE [c1 EXCEPT !.status = Some(200), !.total = Some(resp.total),
                    !.search_id = Cursor(resp, n),
                    !.records = XmlToDictRecords(resp, n),
                    !.error = ErrorOfPage(resp, c.error), !.pc = "log"]

\* thread t sends a request and runs up to its next request or to the log
CallAttempt(t) ==
    /\ calls[t].pc = "while"
    /\ \E resp \in Responses :
        calls' = [calls EXCEPT ![t] = Attempt(calls[t], resp)]
    /\ UNCHANGED queue
    /\ UNCHANGED <<sessionVars, first, record, elements, extracted, compiled,
                   declared, convertVars>>

\* thread t builds the log, puts the result on the queue and returns it
CallReturn(t) ==
    LET c == calls[t]
        log == LogEntry(c.status, c.total, c.records, c.error, c.search_id)
        result == <<log, c.records>> IN
    /\ c.pc = "log"
    /\ queue' = Append(queue, result)
    /\ calls' = [calls EXCEPT ![t] = [c EXCEPT !.put = Append(@, result),
                                               !.result = Some(result),
                                               !.pc = "returned"]]
    /\ UNCHANGED <<sessionVars, first, record, elements, extracted, compiled,
                   declared, convertVars>>

InitCalls ==
    /\ SessionIdle
    /\ record = [control |-> None, datafields |-> <<>>]
    /\ elements = <<>>
    /\ declared = <<>>
    /\ extracted = <<>>
    /\ compiled = <<>>
    /\ column_value = None
    /\ converted = <<>>
    /\ calls = [t \in Threads |-> NewCall(OwnMap(t))]
    /\ queue = <<>>

NextCalls ==
    \/ \E t \in Threads : CallAttempt(t)
    \/ \E t \in Threads : CallReturn(t)

SpecCalls == InitCalls /\ [][NextCalls]_vars

\* ------------------------------------------------------ convert_me_id
MaxStr == 2      \* pieces of a string
MaxList == 2     \* elements of the list given to convert_me_id

\* A string is a sequence of pieces: the five characters "(DHL)", a blank,
\* or a digit.
Prefix == "(DHL)"
Pieces == {Prefix, " ", "1"}

\* the Python values convert_me_id is given: strings, a number, lists
StrVal(s) == [str |-> s]
IntVal(n) == [int |-> n]
ListVal(items) == [list |-> items]
Scalars == {StrVal(s) : s \in SeqsUpTo(Pieces, MaxStr)} \cup {IntVal(7)}
ConvertInputs == Scalars \cup {ListVal(l) : l \in SeqsUpTo(Scalars, MaxList)}

\* value.startswith('(DHL)')
StartsWith(s) == s # <<>> /\ Head(s) = Prefix

\* value.replace('(DHL)', ''): every occurrence is removed
ReplaceAll(s) == SelectSeq(s, LAMBDA c : c # Prefix)

RECURSIVE LStrip(_)
LStrip(s) == IF s # <<>> /\ Head(s) = " " THEN LStrip(Tail(s)) ELSE s

RECURSIVE RStrip(_)
RStrip(s) ==
    IF s # <<>> /\ s[Len(s)] = " " THEN RStrip(SubSeq(s, 1, Len(s) - 1)) ELSE s

\* value.strip()
Strip(s) == RStrip(LStrip(s))

\* isinstance(value, str) and value.startswith('(DHL)')
Qualifies(v) == IF DOMAIN v = {"str"} THEN StartsWith(v.str) ELSE FALSE

RECURSIVE FirstQualifying(_)
\* the loop "for value in column_value" with its return
FirstQualifying(items) ==
    IF items = <<>> THEN None
    ELSE IF Qualifies(Head(items))
    THEN Some(StrVal(Strip(ReplaceAll(Head(items).str))))
    ELSE FirstQualifying(Tail(items))

\* what convert_me_id(v) returns: None, or Some(value)
ConvertMeId(v) ==
    IF DOMAIN v = {"list"} THEN FirstQualifying(v.list) ELSE Some(v)

\* convert_me_id(column_value)
ConvertCall ==
    /\ Len(converted) < MaxCalls
    /\ converted' = Append(converted, ConvertMeId(column_value))
    /\ UNCHANGED <<sessionVars, first, record, elements, extracted, compiled,
                   declared, column_value, callVars>>

InitConvert ==
    /\ SessionIdle
    /\ record = [control |-> None, datafields |-> <<>>]
    /\ elements = <<>>
    /\ declared = <<>>
    /\ extracted = <<>>
    /\ compiled = <<>>
    /\ column_value \in ConvertInputs
    /\ converted = <<>>
    /\ calls = <<>>
    /\ queue = <<>>

NextConvert == ConvertCall

SpecConvert == InitConvert /\ [][NextConvert]_vars

\* ------------------------------------------------ reading the histories
Last(s) == s[Len(s)]

\* a 200 answer whose body parses
Success(resp) == ~resp.exc /\ resp.status = 200 /\ resp.bodyOK

\* a 200 answer whose body does not parse
Malformed(resp) == ~resp.exc /\ resp.status = 200 /\ ~resp.bodyOK

RateLimited(resp) == ~resp.exc /\ resp.status = 429

OtherStatus(resp) == ~resp.exc /\ resp.status \notin {200, 429}

\* a non-200/non-429 status or a network exception
TransportFailure(resp) == resp.exc \/ OtherStatus(resp)

\* a 200 page that carries no search_id
NoCursorPage(resp) == Success(resp) /\ ~resp.hasCursor

\* the cursor a request carries (requests drops a parameter that is None)
SentCursor(req) == IF "search_id" \in DOMAIN req THEN req["search_id"] ELSE None

RECURSIVE RecordsUpTo(_)
\* number of records on the pages answering requests 1..k
RecordsUpTo(k) == IF k = 0 THEN 0 ELSE RecordsUpTo(k - 1) + resps[k].nrec

RECURSIVE PrevCursor(_)
\* the cursor returned by the last successful page before request i
PrevCursor(i) ==
    IF i <= 1 THEN None
    ELSE IF Success(resps[i - 1]) THEN Cursor(resps[i - 1], i - 1)
    ELSE PrevCursor(i - 1)

AtCallBoundary == pc \in {"json_while", "done"}

\* ------------------------------------------------------------- claims
\* C1: against an API that answers every request with a 200 page reporting
\* total = N and whose pages' record counts sum to N, get_records_json
\* issues no request after the one that brought the count to N, and leaves
\* its loop there with exactly N accumulated records.
C1_PaginationTermination ==
    (kind = "json" /\ resps # <<>>
        /\ \A i \in 1..Len(resps) : Success(resps[i]))
    => /\ \A k \in 1..(Len(resps) - 1) : RecordsUpTo(k) # apiTotal
       /\ (RecordsUpTo(Len(resps)) = apiTotal /\ AtCallBoundary)
            => /\ Len(all_records) = apiTotal
               /\ ~LoopCond(all_records, total)

\* C2: when the API answers 429 to every request, a get_records_json
\* session issues no more requests than one undl_request call may make,
\* and then leaves its loop with the 429 and its error in the log.
C2_RateLimitBounded ==
    (kind = "json" /\ \A i \in 1..Len(resps) : RateLimited(resps[i]))
    => /\ Len(sent) <= RetryLimit
       /\ (Len(sent) = RetryLimit /\ AtCallBoundary)
            => /\ ~LoopCond(all_records, total)
               /\ Last(logs)[1] = Some(429)
               /\ Last(logs)[4] # None

\* C3: a undl_request call answered with 429 and then with a 200 page
\* returns status 200 with that page's total, cursor and records, and its
\* log entry records the one retry (the rate-limit note in its error field).
C3_RateLimitRecovery ==
    (kind = "json" /\ Len(resps) = 2 /\ Len(logs) = 1
        /\ RateLimited(resps[1]) /\ Success(resps[2]))
    => /\ logs[1] = <<Some(200), Some(resps[2].total), resps[2].nrec,
                      Some(RateLimitMsg), Cursor(resps[2], 2)>>
       /\ all_records = PageRecords(resps[2], 2)
       /\ pauses = 1

\* C4: an answer whose status is neither 200 nor 429 ends the undl_request
\* call (no further request in it), and the log entry returned has that
\* status, zero records and an error that is not None.
C4_OtherStatusError ==
    /\ (pc = "undl_while" /\ retry_count > 0) => RateLimited(Last(resps))
    /\ (kind = "json" /\ pc = "json_while" /\ logs # <<>>
            /\ OtherStatus(Last(resps)))
        => /\ Last(logs)[1] = Some(Last(resps).status)
           /\ Last(logs)[3] = 0
           /\ Last(logs)[4] # None

\* C5: once a page of a get_records_json session ends in a transport error
\* no further request is issued: the session leaves its loop, the failed
\* page's entry being the last of the log and the records gathered before
\* it being kept.
C5_TransportErrorEndsSession ==
    kind = "json"
    => /\ \A i \in 1..(Len(resps) - 1) : ~TransportFailure(resps[i])
       /\ (resps # <<>> /\ TransportFailure(Last(resps)) /\ AtCallBoundary)
            => /\ ~LoopCond(all_records, total)
               /\ Last(logs)[3] = 0
               /\ Last(logs)[4] # None

\* C6: a 200 answer whose body cannot be parsed never makes undl_request
\* or get_records_xml raise.
C6_ParseFailureNotRaised ==
    (resps # <<>> /\ Malformed(Last(resps))) => pc # "raised"

\* C7: a 200 page without search_id stops the session without error: no
\* request follows it and the session does not raise.
C7_AbsentCursorStops ==
    /\ \A i \in 1..(Len(resps) - 1) : ~NoCursorPage(resps[i])
    /\ (resps # <<>> /\ NoCursorPage(Last(resps)))
        => /\ pc # "raised"
           /\ pc = "json_while" => ~LoopCond(all_records, total)

\* C8: the first request of a session carries no cursor and every later
\* request carries the cursor returned by the immediately preceding
\* successful page.
C8_CursorThreading ==
    \A i \in 1..Len(sent) : SentCursor(sent[i]) = PrevCursor(i)

\* C9: whenever get_records_json is between two undl_request calls, or has
\* returned, the log holds one entry per HTTP request issued so far.
C9_OneLogPerRequest ==
    (kind = "json" /\ AtCallBoundary) => Len(logs) = Len(sent)

\* C10 as stated: every request sends every caller-supplied key other than
\* search_id with the value the caller supplied.
C10_CallerKeysSentAsSupplied ==
    \A i \in 1..Len(sent) :
        \A k \in DOMAIN parameters \ {"search_id"} :
            k \in DOMAIN sent[i] /\ sent[i][k] = parameters[k]

\* C10 as amended: every request sends every caller-supplied key other than
\* search_id and format with the value the caller supplied and adds no key
\* but search_id and format; get_records_json always sends format = "xml",
\* get_records_xml sends format as the caller supplied it, or not at all.
C10_OnlyCursorAndFormatEvolve ==
    \A i \in 1..Len(sent) :
        /\ \A k \in DOMAIN parameters \ {"search_id", "format"} :
                k \in DOMAIN sent[i] /\ sent[i][k] = parameters[k]
        /\ DOMAIN sent[i] \subseteq DOMAIN parameters \cup {"search_id", "format"}
        /\ kind = "json" =>
                "format" \in DOMAIN sent[i] /\ sent[i]["format"] = "xml"
        /\ kind = "xml" =>
                IF "format" \in DOMAIN parameters
                THEN "format" \in DOMAIN sent[i]
                     /\ sent[i]["format"] = parameters["format"]
                ELSE "format" \notin DOMAIN sent[i]

\* C10 witness: a json session whose caller supplied a format key has sent
\* a second request, which carries a cursor; and so has an xml session.
C10_Witness ==
    /\ "format" \in DOMAIN parameters
    /\ kind = "json"
    /\ Len(sent) >= 2
    /\ SentCursor(sent[2]) # None
    /\ sent[2]["q"] = parameters["q"]

\* C11: on the same sequence of API answers get_records_xml issues the
\* requests get_records_json issued (same cursor on each), issues none
\* after the answer get_records_json stopped at, stops where it stopped and
\* has accumulated the same records.
C11_SameStateMachine ==
    first # None =>
        /\ \A i \in 1..Len(sent) :
                i <= Len(first[1].sent)
                    => SentCursor(sent[i]) = SentCursor(first[1].sent[i])
        /\ first[1].pc \in {"done", "raised"} => Len(sent) <= Len(first[1].sent)
        /\ pc \in {"done", "raised"} =>
                /\ first[1].pc \in {"done", "raised"}
                /\ Len(sent) = Len(first[1].sent)
                /\ all_records = first[1].all_records

\* ------------------------------------------------ extract_xml claims
\* the nodes the selector of compiled rule e matches, in document order
Matches(e) == FindAll(record, e["query"])

\* item is what the claim prescribes for matched node nd under rule e: the
\* subfield's text for kind subfield; for kind field a dictionary whose
\* keys are the codes of that field's subfields, each with the text of a
\* subfield of that field carrying that code
ItemFits(item, e, nd) ==
    IF e["element"] = "field"
    THEN /\ DOMAIN item = {"dict"}
         /\ Len(nd) = 1
         /\ LET subs == record.datafields[nd[1]].subfields IN
            /\ DOMAIN item.dict = {subs[j].code : j \in DOMAIN subs}
            /\ \A c \in DOMAIN item.dict :
                    \E j \in DOMAIN subs :
                        subs[j].code = c /\ subs[j].text = item.dict[c]
    ELSE /\ DOMAIN item = {"text"}
         /\ Len(nd) = 2
         /\ item.text = record.datafields[nd[1]].subfields[nd[2]].text

\* v has the shape the number of matches of rule e fixes
ShapeFits(v, e) ==
    LET nodes == Matches(e) IN
    IF nodes = <<>> THEN v = None
    ELSE /\ v # None
         /\ DOMAIN v[1] = {"list"}
         /\ Len(v[1].list) = Len(nodes)
         /\ \A k \in 1..Len(nodes) : ItemFits(v[1].list[k], e, nodes[k])

\* rule i is the last rule of the list with its output key name
LastWithName(i) ==
    \A j \in (i + 1)..Len(elements) : elements[j]["name"] # elements[i]["name"]

\* C12 as stated: in every dictionary extract_xml returned, the value under
\* each rule's output key is None when the rule matches nothing and
\* otherwise the list of its n matches in document order, texts for kind
\* subfield and code -> text dictionaries for kind field.
C12_ShapeByCardinality ==
    \A c \in 1..Len(extracted) : \A i \in 1..Len(elements) :
        ShapeFits(extracted[c][elements[i]["name"]], elements[i])

\* C12 as amended: the same, for each rule that is the last of the list
\* with its output key name (a later rule with the same name overwrites).
C12_ShapeByCardinalityOfLastRule ==
    \A c \in 1..Len(extracted) : \A i \in 1..Len(elements) :
        LastWithName(i) =>
            ShapeFits(extracted[c][elements[i]["name"]], elements[i])

\* C12 witness: extract_xml has returned for a field rule with two matches
\* and a subfield rule with two matches of equal text.
C12_Witness ==
    /\ Len(extracted) >= 1
    /\ Len(elements) = 2
    /\ elements[1]["name"] # elements[2]["name"]
    /\ elements[1]["element"] = "field" /\ Len(Matches(elements[1])) = 2
    /\ elements[2]["element"] = "subfield" /\ Len(Matches(elements[2])) = 2
    /\ extracted[1][elements[2]["name"]] = Some(List(<<Text("x"), Text("x")>>))

\* C15: every dictionary extract_xml returned has the key undl_id, whose
\* value is the text of the record's 001 controlfield, or None without one.
C15_UndlIdAlwaysControlField ==
    \A c \in 1..Len(extracted) :
        /\ "undl_id" \in DOMAIN extracted[c]
        /\ extracted[c]["undl_id"] = record.control

\* C16: every further extract_xml call on the same record with the same
\* rule objects, as the earlier calls left them, returns a dictionary
\* identical to the first call's.
C16_ExtractIdempotent ==
    \A c \in 1..Len(extracted) : extracted[c] = extracted[1]

\* C16 witness: the second call ran on rules that carry the query key the
\* first call wrote, with a rule that matches and one that does not.
C16_Witness ==
    /\ Len(extracted) >= 2
    /\ Len(elements) = 2
    /\ \A i \in 1..2 : "query" \in DOMAIN elements[i] /\ "query" \notin DOMAIN declared[i]
    /\ extracted[2][elements[1]["name"]] # None
    /\ Matches(elements[2]) = <<>>
    /\ elements[1]["name"] # elements[2]["name"]

\* -------------------------------------------------- get_query claims
\* The selector the three-step rule prescribes for rule e: the tag match,
\* narrowed by ind1 when the rule carries an indicator filter (a non-empty
\* string), narrowed to the subfield when a code is specified (any string,
\* the empty one included).
RuleSelector(e) ==
    <<Step("datafield", "tag", e["field"])>>
    \o (IF e["ind1"] \notin {None, Some("")}
        THEN <<Step("self", "ind1", e["ind1"][1])>> ELSE <<>>)
    \o (IF e["code"] # None
        THEN <<Step("subfield", "code", e["code"][1])>> ELSE <<>>)

C14_RulesUnchanged == elements = declared

\* C14 as amended: the list keeps its length and order and every key the
\* caller declared keeps its value; the only key ever added is query, which
\* a call sets on the caller's own dictionary; the dictionary get_query
\* returns is that dictionary, not a separate value.
C14_OnlyQueryAdded ==
    /\ Len(elements) = Len(declared)
    /\ \A i \in 1..Len(elements) :
        /\ \A k \in DOMAIN declared[i] :
                k \in DOMAIN elements[i] /\ elements[i][k] = declared[i][k]
        /\ DOMAIN elements[i] \subseteq DOMAIN declared[i] \cup {"query"}
        /\ (compiled # <<>> \/ extracted # <<>>) => "query" \in DOMAIN elements[i]
    /\ \A c \in 1..Len(compiled) : compiled[c] = elements[1]

\* C14 witness: get_query and extract_xml have both run on a rule whose
\* code is the empty string, and the caller's dictionary now holds query.
C14_Witness ==
    /\ compiled # <<>>
    /\ extracted # <<>>
    /\ declared[1]["code"] = Some("")
    /\ "query" \in DOMAIN elements[1]
    /\ "query" \notin DOMAIN declared[1]

\* ---------------------------------------------- convert_me_id claim
\* the elements of a list that are strings starting with the prefix
QualifyingAt(items) ==
    {i \in DOMAIN items : IF DOMAIN items[i] = {"str"}
                          THEN items[i].str # <<>> /\ items[i].str[1] = Prefix
                          ELSE FALSE}

\* the string left when only the leading prefix is taken off and the
\* surrounding blanks are trimmed
WithoutLeadingPrefix(s) == Strip(Tail(s))

\* C17: for a list, convert_me_id returns the first element that is a
\* string starting with (DHL), without that leading prefix and trimmed,
\* the rest of the string intact; None when no element qualifies; a value
\* that is not a list is returned unchanged.
C17_FirstPrefixedTrimmed ==
    \A c \in 1..Len(converted) :
        IF DOMAIN column_value = {"list"}
        THEN LET q == QualifyingAt(column_value.list) IN
             IF q = {} THEN converted[c] = None
             ELSE LET i == CHOOSE i \in q : \A j \in q : i <= j IN
                  converted[c] =
                      Some(StrVal(WithoutLeadingPrefix(column_value.list[i].str)))
        ELSE converted[c] = Some(column_value)

\* ------------------------------------------- undl_request claims
\* call c has left undl_request, by return or by an exception
Left(c) == c.pc \in {"returned", "raised"}

\* C18: every call that has left undl_request has put exactly one pair on
\* the queue, the pair it returned, and two calls whose own requests got
\* the same answers have put the same pairs.
C18_OnePairPerCall ==
    \A t \in DOMAIN calls :
        Left(calls[t]) =>
            /\ Len(calls[t].put) = 1
            /\ calls[t].result = Some(calls[t].put[1])
            /\ \A u \in DOMAIN calls :
                    Left(calls[u]) /\ calls[u].resps = calls[t].resps
                        => calls[u].put = calls[t].put

\* C19: a call sends at most 2 requests, all with the same parameters;
\* when its retry loop has ended every pause it made was followed by a
\* request; and a call whose last answer was a 429 returns status 429, no
\* records and an error.
C19_RetryBoundAndBackoff ==
    \A t \in DOMAIN calls :
        LET c == calls[t] IN
        /\ Len(c.sent) <= 2
        /\ \A i \in 1..Len(c.sent) : c.sent[i] = c.sent[1]
        /\ c.pc # "while" => c.pauses <= Len(c.sent) - 1
        /\ (c.pc = "returned" /\ RateLimited(Last(c.resps))) =>
                /\ c.result[1][1][1] = Some(429)
                /\ c.result[1][2] = <<>>
                /\ c.result[1][1][4] # None

\* ----------------------------------------- the caller's mapping
\* C20: at every point of a session the mapping object the caller passed
\* in has exactly the keys and values it had at the call.
C20_CallerMappingUntouched == parameters = supplied

\* C20 witness: get_records_json has returned after two requests, having
\* written format and search_id into its own mapping; the caller's mapping
\* carries neither.
C20_Witness ==
    /\ kind = "json"
    /\ pc = "done"
    /\ Len(sent) = 2
    /\ "search_id" \in DOMAIN params /\ params["search_id"] # None
    /\ params["format"] = "xml"
    /\ DOMAIN parameters = {"q"}

\* ------------------------------------------ accumulated count and total
\* C21: in every state of a get_records_json session in which total is
\* known, the number of accumulated records is at most total.
C21_AccumulatedAtMostTotal ==
    (kind = "json" /\ total # None) => Len(all_records) <= total[1]

====
